---- MODULE Spec2Model ----
(***************************************************************************)
(* Model of the derive-debug procedural macro (src/src/lib.rs).            *)
(*                                                                         *)
(* The macro is a pure function from an annotated item (DeriveInput) to a  *)
(* token stream.  The item, its attributes and the generated code are      *)
(* modelled as records; all text (identifiers, string literals, rendered   *)
(* output) is a sequence of one-character strings, so that format-template *)
(* interpretation and path parsing are computed character by character.    *)
(***************************************************************************)
EXTENDS Integers, Sequences, FiniteSets, TLC

VARIABLES
    target,    \* SpecOptions: the OptionsTarget under test
    attrs,     \* SpecOptions: the attribute list under test
    parsed,    \* SpecOptions: result of parse_options(attrs, target)
    item,      \* the DeriveInput handed to the macro
    out,       \* result of derive_debug_impl(item)
    value,     \* SpecRender: the value handed to the generated fmt
    rendered   \* SpecRender: what the generated fmt wrote

vars == <<target, attrs, parsed, item, out, value, rendered>>

----------------------------------------------------------------------------
(* Bounds *)

MaxOptions == 2     \* options in one annotation list (SpecOptions)
MaxPathLen == 1     \* characters in a formatter string (SpecOptions)
MaxTextLen == 1     \* characters in an alias/placeholder/fmt string (SpecOptions)
MaxFields == 2      \* fields of a record or union case (SpecRender)
MaxVariants == 2    \* cases of a union (SpecRender)

SeqsUpTo(S, n) == UNION {[1..k -> S] : k \in 0..n}

----------------------------------------------------------------------------
(* Result<T, syn::Error> *)

Ok(v) == [ok |-> TRUE, val |-> v]
Err(m) == [ok |-> FALSE, err |-> m]

(* the ? operator: the error returns at once, the value goes on *)
Try(r, k(_)) == IF r.ok THEN k(r.val) ELSE r

----------------------------------------------------------------------------
(* FieldPrintType, FieldOutputOptions, OptionsTarget *)

Normal == [tag |-> "Normal", arg |-> <<>>]
Skip == [tag |-> "Skip", arg |-> <<>>]
Placeholder(s) == [tag |-> "Placeholder", arg |-> s]
Format(s) == [tag |-> "Format", arg |-> s]
Custom(p) == [tag |-> "Custom", arg |-> p]

None == [some |-> FALSE, val |-> <<>>]
Some(s) == [some |-> TRUE, val |-> s]

FieldOutputOptions(pt, al) == [print_type |-> pt, alias |-> al]

OptionsTarget == {"DeriveItem", "EnumVariant", "NamedField", "UnnamedField"}

----------------------------------------------------------------------------
(* Attributes and nested options, as syn parses them.                       *)
(*   shape "path": NestedMeta::Meta(Meta::Path)            skip             *)
(*   shape "str":  Meta::NameValue with Lit::Str           alias = "x"      *)
(*   shape "int":  Meta::NameValue with another literal    alias = 1        *)
(*   shape "list": Meta::List                              skip(x)          *)
(*   shape "lit":  NestedMeta::Lit                         "x"              *)

OptPath(k) == [shape |-> "path", key |-> k, val |-> <<>>]
OptStr(k, s) == [shape |-> "str", key |-> k, val |-> s]
OptInt(k) == [shape |-> "int", key |-> k, val |-> <<>>]
OptList(k) == [shape |-> "list", key |-> k, val |-> <<>>]
OptLit(s) == [shape |-> "lit", key |-> "", val |-> s]

(* #[dbg(o1, o2, ...)], #[dbg], #[dbg = "x"], #[dbg(a b)], #[doc(...)] *)
DbgList(os) == [path |-> "dbg", meta |-> "list", nested |-> os]
DbgWord == [path |-> "dbg", meta |-> "path", nested |-> <<>>]
DbgNameValue == [path |-> "dbg", meta |-> "namevalue", nested |-> <<>>]
DbgUnparsable == [path |-> "dbg", meta |-> "unparsable", nested |-> <<>>]
OtherAttr(os) == [path |-> "doc", meta |-> "list", nested |-> os]

----------------------------------------------------------------------------
(* syn::parse_str::<Path>: an optional leading "::", then identifiers       *)
(* separated by "::"; the whole string must be consumed.                    *)

IdentChars == {"a", "b", "f", "x", "y", "z", "_"}

PathStep(st, c) ==
    CASE st = "start" /\ c \in IdentChars -> "ident"
      [] st = "start" /\ c = ":" -> "colon"
      [] st = "ident" /\ c \in IdentChars -> "ident"
      [] st = "ident" /\ c = ":" -> "colon"
      [] st = "colon" /\ c = ":" -> "sep"
      [] st = "sep" /\ c \in IdentChars -> "ident"
      [] OTHER -> "fail"

RECURSIVE PathScan(_, _)
PathScan(st, s) ==
    IF s = <<>> THEN st ELSE PathScan(PathStep(st, Head(s)), Tail(s))

ParsesAsPath(s) == PathScan("start", s) = "ident"

----------------------------------------------------------------------------
(* parse_options, lib.rs 313-388 *)

IsFieldTarget(t) == t = "NamedField" \/ t = "UnnamedField"

(* parse_option with the context guard of alias dropped *)
parse_option_alias_anywhere(option, t, res) ==
    CASE option.shape = "path" /\ option.key = "skip" /\ t # "DeriveItem" ->
            Ok([res EXCEPT !.print_type = Skip])
      [] option.shape = "str" /\ option.key = "placeholder" /\ IsFieldTarget(t) ->
            Ok([res EXCEPT !.print_type = Placeholder(option.val)])
      [] option.shape = "str" /\ option.key = "alias" ->
            Ok([res EXCEPT !.alias = Some(option.val)])
      [] option.shape = "str" /\ option.key = "fmt" /\ IsFieldTarget(t) ->
            Ok([res EXCEPT !.print_type = Format(option.val)])
      [] option.shape = "str" /\ option.key = "formatter" /\ IsFieldTarget(t) ->
            IF ParsesAsPath(option.val)
            THEN Ok([res EXCEPT !.print_type = Custom(option.val)])
            ELSE Err("path parse error")
      [] OTHER -> Err("invalid option")

(* parse_option where a rendering option is kept only if none was set before *)
parse_option_first_wins(option, t, res) ==
    CASE option.shape = "path" /\ option.key = "skip" /\ t # "DeriveItem" ->
            Ok(IF res.print_type = Normal THEN [res EXCEPT !.print_type = Skip] ELSE res)
      [] option.shape = "str" /\ option.key = "placeholder" /\ IsFieldTarget(t) ->
            Ok(IF res.print_type = Normal
               THEN [res EXCEPT !.print_type = Placeholder(option.val)] ELSE res)
      [] option.shape = "str" /\ option.key = "alias" /\ t # "UnnamedField" ->
            Ok([res EXCEPT !.alias = Some(option.val)])
      [] option.shape = "str" /\ option.key = "fmt" /\ IsFieldTarget(t) ->
            Ok(IF res.print_type = Normal
               THEN [res EXCEPT !.print_type = Format(option.val)] ELSE res)
      [] option.shape = "str" /\ option.key = "formatter" /\ IsFieldTarget(t) ->
            IF ParsesAsPath(option.val)
            THEN Ok(IF res.print_type = Normal
                    THEN [res EXCEPT !.print_type = Custom(option.val)] ELSE res)
            ELSE Err("path parse error")
      [] OTHER -> Err("invalid option")

(* parse_option with placeholder guarded like skip: anywhere but the top-level item *)
parse_option_placeholder_on_case(option, t, res) ==
    CASE option.shape = "path" /\ option.key = "skip" /\ t # "DeriveItem" ->
            Ok([res EXCEPT !.print_type = Skip])
      [] option.shape = "str" /\ option.key = "placeholder" /\ t # "DeriveItem" ->
            Ok([res EXCEPT !.print_type = Placeholder(option.val)])
      [] option.shape = "str" /\ option.key = "alias" /\ t # "UnnamedField" ->
            Ok([res EXCEPT !.alias = Some(option.val)])
      [] option.shape = "str" /\ option.key = "fmt" /\ IsFieldTarget(t) ->
            Ok([res EXCEPT !.print_type = Format(option.val)])
      [] option.shape = "str" /\ option.key = "formatter" /\ IsFieldTarget(t) ->
            IF ParsesAsPath(option.val)
            THEN Ok([res EXCEPT !.print_type = Custom(option.val)])
            ELSE Err("path parse error")
      [] OTHER -> Err("invalid option")

(* one arm of the match at lib.rs 338-383, applied to the options so far *)
parse_option(option, t, res) ==
    CASE option.shape = "path" /\ option.key = "skip" /\ t # "DeriveItem" ->
            Ok([res EXCEPT !.print_type = Skip])
      [] option.shape = "str" /\ option.key = "placeholder" /\ IsFieldTarget(t) ->
            Ok([res EXCEPT !.print_type = Placeholder(option.val)])
      [] option.shape = "str" /\ option.key = "alias" /\ t # "UnnamedField" ->
            Ok([res EXCEPT !.alias = Some(option.val)])
      [] option.shape = "str" /\ option.key = "fmt" /\ IsFieldTarget(t) ->
            Ok([res EXCEPT !.print_type = Format(option.val)])
      [] option.shape = "str" /\ option.key = "formatter" /\ IsFieldTarget(t) ->
            IF ParsesAsPath(option.val)
            THEN Ok([res EXCEPT !.print_type = Custom(option.val)])
            ELSE Err("path parse error")
      [] OTHER -> Err("invalid option")

RECURSIVE parse_nested(_, _, _)
parse_nested(nested, t, res) ==
    IF nested = <<>> THEN Ok(res)
    ELSE LET r == parse_option(Head(nested), t, res)
         IN IF r.ok THEN parse_nested(Tail(nested), t, r.val) ELSE r

RECURSIVE parse_attributes(_, _, _)
parse_attributes(attributes, t, res) ==
    IF attributes = <<>> THEN Ok(res)
    ELSE LET attrib == Head(attributes)
         IN IF attrib.path # "dbg" THEN parse_attributes(Tail(attributes), t, res)
            ELSE IF attrib.meta = "unparsable" THEN Err("meta parse error")
            ELSE IF attrib.meta # "list" THEN Err("invalid #[dbg(...)] attribute")
            ELSE LET r == parse_nested(attrib.nested, t, res)
                 IN IF r.ok THEN parse_attributes(Tail(attributes), t, r.val) ELSE r

parse_options(attributes, t) ==
    parse_attributes(attributes, t, FieldOutputOptions(Normal, None))

----------------------------------------------------------------------------
(* Text helpers: Ident::to_string, format_ident!("field_{}", i), syn::Index *)

DigitChars == <<"0", "1", "2", "3", "4", "5", "6", "7", "8", "9">>

RECURSIVE Decimal(_)
Decimal(n) ==
    IF n < 10 THEN <<DigitChars[n + 1]>>
    ELSE Decimal(n \div 10) \o <<DigitChars[(n % 10) + 1]>>

FieldIdent(i) == <<"f", "i", "e", "l", "d", "_">> \o Decimal(i)

----------------------------------------------------------------------------
(* The generated token stream, as a syntax tree.                            *)
(*   expressions:  &self.m   self.m   a local binding   path(expr)          *)
(*                 &format_args!(template, args...)                         *)
(*   fragment:     .field(label, expr)  or  .field(expr)                    *)
(*   builder:      f.debug_struct(name) frags .finish()                     *)
(*                 f.debug_tuple(name) frags .finish()                      *)
(*                 write!(f, name)                                          *)

RefSelf(m) == [kind |-> "ref_self", name |-> m, template |-> <<>>, args |-> <<>>]
SelfDot(m) == [kind |-> "self", name |-> m, template |-> <<>>, args |-> <<>>]
Local(n) == [kind |-> "local", name |-> n, template |-> <<>>, args |-> <<>>]
Call(p, e) == [kind |-> "call", name |-> p, template |-> <<>>, args |-> <<e>>]
FormatArgs(t, as) == [kind |-> "format_args", name |-> <<>>, template |-> t, args |-> as]

FieldCall(label, e) == [label |-> label, arg |-> e]

DebugStruct(n, frags) == [kind |-> "debug_struct", name |-> n, fields |-> frags]
DebugTuple(n, frags) == [kind |-> "debug_tuple", name |-> n, fields |-> frags]
WriteMacro(n) == [kind |-> "write", name |-> n, fields |-> <<>>]

(* patterns:  { a, b: _, }   ( field_0, _, )   {..}   (..)   nothing *)
Bind(m, n) == [member |-> m, bind |-> Some(n)]
Discard(m) == [member |-> m, bind |-> None]
Pattern(shape, entries) == [shape |-> shape, entries |-> entries]

Arm(v, pat, body) == [variant |-> v, pat |-> pat, body |-> body]

Unreachable == [kind |-> "unreachable", arms |-> <<>>, expr |-> <<>>]
Match(arms) == [kind |-> "match", arms |-> arms, expr |-> <<>>]
Expr(b) == [kind |-> "expr", arms |-> <<>>, expr |-> b]

Impl(n, body) == [kind |-> "impl", name |-> n, body |-> body, msg |-> ""]
CompileError(m) == [kind |-> "error", name |-> <<>>, body |-> <<>>, msg |-> m]

----------------------------------------------------------------------------
(* derive_named_fields, lib.rs 196-243 *)

(* if let Some(alias) = options.alias { alias } else { name.to_string() } *)
DisplayName(options, name) == IF options.alias.some THEN options.alias.val ELSE name

(* variant: a placeholder field is printed like an unannotated one *)
named_field_fragment_placeholder_shows_value(field, options, use_self) ==
    IF options.print_type.tag = "Skip" THEN <<>>
    ELSE <<FieldCall(Some(DisplayName(options, field.ident)),
                IF use_self THEN RefSelf(field.ident) ELSE Local(field.ident))>>

named_field_fragment(field, options, use_self) ==
    LET name == field.ident
        name_str == DisplayName(options, name)
        pt == options.print_type
    IN CASE pt.tag = "Normal" ->
                <<FieldCall(Some(name_str), IF use_self THEN RefSelf(name) ELSE Local(name))>>
         [] pt.tag = "Placeholder" ->
                <<FieldCall(Some(name_str), FormatArgs(pt.arg, <<>>))>>
         [] pt.tag = "Format" ->
                <<FieldCall(Some(name_str),
                    FormatArgs(pt.arg, <<IF use_self THEN SelfDot(name) ELSE Local(name)>>))>>
         [] pt.tag = "Custom" ->
                <<FieldCall(Some(name_str),
                    FormatArgs(<<"{", "}">>,
                        <<Call(pt.arg, IF use_self THEN RefSelf(name) ELSE Local(name))>>))>>
         [] pt.tag = "Skip" -> <<>>

(* the loop over fields.named, res being the token stream so far *)
RECURSIVE named_fields_loop(_, _, _)
named_fields_loop(fields, use_self, res) ==
    IF fields = <<>> THEN Ok(res)
    ELSE Try(parse_options(Head(fields).attrs, "NamedField"),
             LAMBDA options :
                named_fields_loop(Tail(fields), use_self,
                    res \o named_field_fragment(Head(fields), options, use_self)))

derive_named_fields(fields, use_self) == named_fields_loop(fields, use_self, <<>>)

----------------------------------------------------------------------------
(* derive_unnamed_fields, lib.rs 245-290 *)

(* variant: a skipped positional field leaves a mark in the output *)
unnamed_field_fragment_skip_printed(i, options, use_self) ==
    IF options.print_type.tag = "Skip" THEN <<FieldCall(None, FormatArgs(<<"_">>, <<>>))>>
    ELSE <<FieldCall(None, IF use_self THEN RefSelf(Decimal(i)) ELSE Local(FieldIdent(i)))>>

unnamed_field_fragment(i, options, use_self) ==
    LET pt == options.print_type
    IN CASE pt.tag = "Normal" ->
                <<FieldCall(None, IF use_self THEN RefSelf(Decimal(i)) ELSE Local(FieldIdent(i)))>>
         [] pt.tag = "Placeholder" ->
                <<FieldCall(None, FormatArgs(pt.arg, <<>>))>>
         [] pt.tag = "Format" ->
                <<FieldCall(None,
                    FormatArgs(pt.arg,
                        <<IF use_self THEN SelfDot(Decimal(i)) ELSE Local(FieldIdent(i))>>))>>
         [] pt.tag = "Custom" ->
                <<FieldCall(None,
                    FormatArgs(<<"{", "}">>,
                        <<Call(pt.arg,
                            IF use_self THEN RefSelf(Decimal(i)) ELSE Local(FieldIdent(i)))>>))>>
         [] pt.tag = "Skip" -> <<>>

(* the loop over fields.unnamed.iter().enumerate(), from index i on *)
RECURSIVE unnamed_fields_loop(_, _, _, _)
unnamed_fields_loop(fields, i, use_self, res) ==
    IF i >= Len(fields) THEN Ok(res)
    ELSE Try(parse_options(fields[i + 1].attrs, "UnnamedField"),
             LAMBDA options :
                unnamed_fields_loop(fields, i + 1, use_self,
                    res \o unnamed_field_fragment(i, options, use_self)))

derive_unnamed_fields(fields, use_self) == unnamed_fields_loop(fields, 0, use_self, <<>>)

----------------------------------------------------------------------------
(* derive_match_list, lib.rs 164-194 *)

(* variant: the pattern binds every named field, skipped or not *)
named_match_entry_bind_all(field, options) == Bind(field.ident, field.ident)

named_match_entry(field, options) ==
    IF options.print_type.tag = "Skip" THEN Discard(field.ident)
    ELSE Bind(field.ident, field.ident)

unnamed_match_entry(i, options) ==
    IF options.print_type.tag = "Skip" THEN Discard(<<>>)
    ELSE Bind(<<>>, FieldIdent(i))

RECURSIVE named_match_entries(_, _)
named_match_entries(fields, res) ==
    IF fields = <<>> THEN Ok(res)
    ELSE Try(parse_options(Head(fields).attrs, "NamedField"),
             LAMBDA options :
                named_match_entries(Tail(fields),
                    res \o <<named_match_entry(Head(fields), options)>>))

RECURSIVE unnamed_match_entries(_, _, _)
unnamed_match_entries(fields, i, res) ==
    IF i >= Len(fields) THEN Ok(res)
    ELSE Try(parse_options(fields[i + 1].attrs, "UnnamedField"),
             LAMBDA options :
                unnamed_match_entries(fields, i + 1,
                    res \o <<unnamed_match_entry(i, options)>>))

derive_match_list(fields) ==
    CASE fields.shape = "Named" ->
            Try(named_match_entries(fields.list, <<>>), LAMBDA es : Ok(Pattern("named", es)))
      [] fields.shape = "Unnamed" ->
            Try(unnamed_match_entries(fields.list, 0, <<>>),
                LAMBDA es : Ok(Pattern("unnamed", es)))
      [] fields.shape = "Unit" -> Ok(Pattern("unit", <<>>))

----------------------------------------------------------------------------
(* derive_variant, lib.rs 124-146 *)

(* the match on fields at lib.rs 131-145, once the match list is built *)
variant_arm(name, display_name, fields, match_list) ==
    CASE fields.shape = "Named" ->
            Try(derive_named_fields(fields.list, FALSE),
                LAMBDA fs : Ok(Arm(name, match_list, DebugStruct(display_name, fs))))
      [] fields.shape = "Unnamed" ->
            Try(derive_unnamed_fields(fields.list, FALSE),
                LAMBDA fs : Ok(Arm(name, match_list, DebugTuple(display_name, fs))))
      [] fields.shape = "Unit" ->
            Ok(Arm(name, match_list, WriteMacro(display_name)))

derive_variant(name, display_name, fields) ==
    Try(derive_match_list(fields),
        LAMBDA match_list : variant_arm(name, display_name, fields, match_list))

(* skip_variant, lib.rs 148-162 *)
skip_variant(name, display_name, fields) ==
    CASE fields.shape = "Named" ->
            Ok(Arm(name, Pattern("named_rest", <<>>), DebugStruct(display_name, <<>>)))
      [] fields.shape = "Unnamed" ->
            Ok(Arm(name, Pattern("unnamed_rest", <<>>), DebugTuple(display_name, <<>>)))
      [] fields.shape = "Unit" ->
            Ok(Arm(name, Pattern("unit", <<>>), WriteMacro(display_name)))

----------------------------------------------------------------------------
(* derive_enum_variants, lib.rs 96-122 *)

(* the match on options.print_type at lib.rs 112-116 *)
variant_by_print_type(variant, options) ==
    CASE options.print_type.tag = "Normal" ->
            derive_variant(variant.ident, DisplayName(options, variant.ident), variant.fields)
      [] options.print_type.tag = "Skip" ->
            skip_variant(variant.ident, DisplayName(options, variant.ident), variant.fields)
      [] OTHER -> Err("Internal error")

enum_variant_arm(variant) ==
    Try(parse_options(variant.attrs, "EnumVariant"),
        LAMBDA options : variant_by_print_type(variant, options))

RECURSIVE enum_variants_loop(_, _)
enum_variants_loop(variants, res) ==
    IF variants = <<>> THEN Ok(res)
    ELSE Try(enum_variant_arm(Head(variants)),
             LAMBDA arm : enum_variants_loop(Tail(variants), res \o <<arm>>))

derive_enum_variants(variants) == enum_variants_loop(variants, <<>>)

(* derive_enum, lib.rs 80-94 *)
(* variant: no special case for a union without cases *)
derive_enum_always_match(data) ==
    Try(derive_enum_variants(data.variants), LAMBDA arms : Ok(Match(arms)))

derive_enum(data) ==
    IF data.variants = <<>> THEN Ok(Unreachable)
    ELSE Try(derive_enum_variants(data.variants), LAMBDA arms : Ok(Match(arms)))

(* derive_struct, lib.rs 56-78 *)
derive_struct(display_name, data) ==
    CASE data.fields.shape = "Named" ->
            Try(derive_named_fields(data.fields.list, TRUE),
                LAMBDA fs : Ok(Expr(DebugStruct(display_name, fs))))
      [] data.fields.shape = "Unnamed" ->
            Try(derive_unnamed_fields(data.fields.list, TRUE),
                LAMBDA fs : Ok(Expr(DebugTuple(display_name, fs))))
      [] data.fields.shape = "Unit" ->
            Ok(Expr(DebugStruct(display_name, <<>>)))

(* the match on item.data at lib.rs 35-42 *)
derive_data(it, display_name) ==
    CASE it.data.kind = "struct" -> derive_struct(display_name, it.data)
      [] it.data.kind = "enum" -> derive_enum(it.data)
      [] it.data.kind = "union" -> Err("#[derive(Dbg)] not supported on unions")

(* Err(e) => e.to_compile_error() *)
OrCompileError(r, k(_)) == IF r.ok THEN k(r.val) ELSE CompileError(r.err)

(* derive_debug_impl, lib.rs 20-54 *)
derive_debug_impl(it) ==
    OrCompileError(parse_options(it.attrs, "DeriveItem"),
        LAMBDA options :
            OrCompileError(derive_data(it, DisplayName(options, it.ident)),
                LAMBDA res : Impl(it.ident, res)))

----------------------------------------------------------------------------
(* What the generated code does when it is compiled and run: the host's     *)
(* format templates (write!, format_args!) and Debug builders.              *)

(* A format template applied to already displayed arguments: "{{" and "}}"  *)
(* are escapes, "{}" takes the next argument, any other brace is rejected   *)
(* at compile time, as is an argument no "{}" uses.                         *)
RECURSIVE TemplateScan(_, _, _)
TemplateScan(t, args, acc) ==
    IF t = <<>> THEN (IF args = <<>> THEN Ok(acc) ELSE Err("argument never used"))
    ELSE IF Head(t) = "{" THEN
        IF Len(t) >= 2 /\ t[2] = "{" THEN TemplateScan(SubSeq(t, 3, Len(t)), args, acc \o <<"{">>)
        ELSE IF Len(t) >= 2 /\ t[2] = "}" THEN
            IF args = <<>> THEN Err("missing argument")
            ELSE TemplateScan(SubSeq(t, 3, Len(t)), Tail(args), acc \o Head(args))
        ELSE Err("invalid format string")
    ELSE IF Head(t) = "}" THEN
        IF Len(t) >= 2 /\ t[2] = "}" THEN TemplateScan(SubSeq(t, 3, Len(t)), args, acc \o <<"}">>)
        ELSE Err("invalid format string")
    ELSE TemplateScan(Tail(t), args, acc \o <<Head(t)>>)

FormatTemplate(t, args) == TemplateScan(t, args, <<>>)

(* the one formatting function the client code has in scope *)
FmtNotZeroPath == <<"z">>
fmt_not_zero(v) == IF v = 0 THEN <<"0">> ELSE <<"n", "o", "t", " ", "0">>

(* position of the field a member access names: self.a, self.0 *)
MemberIndex(fields, m) ==
    IF fields.shape = "Named"
    THEN IF \E i \in 1..Len(fields.list) : fields.list[i].ident = m
         THEN CHOOSE i \in 1..Len(fields.list) : fields.list[i].ident = m
         ELSE 0
    ELSE IF fields.shape = "Unnamed"
    THEN IF \E i \in 1..Len(fields.list) : Decimal(i - 1) = m
         THEN CHOOSE i \in 1..Len(fields.list) : Decimal(i - 1) = m
         ELSE 0
    ELSE 0

(* the bindings a match arm's pattern introduces: <<name, value>> pairs *)
PatternBindings(pat, fields, vals) ==
    IF pat.shape = "named"
    THEN {<<pat.entries[k].bind.val, vals[MemberIndex(fields, pat.entries[k].member)]>> :
            k \in {j \in 1..Len(pat.entries) :
                    pat.entries[j].bind.some
                    /\ MemberIndex(fields, pat.entries[j].member) # 0}}
    ELSE IF pat.shape = "unnamed"
    THEN {<<pat.entries[k].bind.val, vals[k]>> :
            k \in {j \in 1..Len(pat.entries) : pat.entries[j].bind.some /\ j <= Len(vals)}}
    ELSE {}

(* does the pattern type-check against the case it destructures *)
PatternOk(pat, fields) ==
    CASE pat.shape = "unit" -> fields.shape = "Unit"
      [] pat.shape = "named" ->
            /\ fields.shape = "Named"
            /\ Len(pat.entries) = Len(fields.list)
            /\ \A i \in 1..Len(fields.list) :
                    Cardinality({k \in 1..Len(pat.entries) :
                                    pat.entries[k].member = fields.list[i].ident}) = 1
      [] pat.shape = "unnamed" ->
            fields.shape = "Unnamed" /\ Len(pat.entries) = Len(fields.list)
      [] pat.shape = "named_rest" -> fields.shape = "Named"
      [] pat.shape = "unnamed_rest" -> fields.shape = "Unnamed"

(* ctx: the fields reachable through self, their values, the local bindings *)
SelfCtx(fields, vals) == [fields |-> fields, vals |-> vals, locals |-> {}]
ArmCtx(pat, fields, vals) ==
    [fields |-> [shape |-> "Unit", list |-> <<>>], vals |-> <<>>,
     locals |-> PatternBindings(pat, fields, vals)]

(* the u32 an expression denotes *)
EvalPlace(e, ctx) ==
    CASE e.kind \in {"ref_self", "self"} ->
            IF MemberIndex(ctx.fields, e.name) # 0
            THEN Ok(ctx.vals[MemberIndex(ctx.fields, e.name)])
            ELSE Err("no such field")
      [] e.kind = "local" ->
            IF \E b \in ctx.locals : b[1] = e.name
            THEN Ok((CHOOSE b \in ctx.locals : b[1] = e.name)[2])
            ELSE Err("cannot find value in this scope")
      [] OTHER -> Err("not a place")

(* Display of one argument of format_args! *)
DisplayArg(e, ctx) ==
    IF e.kind = "call"
    THEN Try(EvalPlace(e.args[1], ctx),
             LAMBDA v : IF e.name = FmtNotZeroPath THEN Ok(fmt_not_zero(v))
                        ELSE Err("cannot find function in this scope"))
    ELSE Try(EvalPlace(e, ctx), LAMBDA v : Ok(Decimal(v)))

RECURSIVE DisplayArgsLoop(_, _, _)
DisplayArgsLoop(es, ctx, acc) ==
    IF es = <<>> THEN Ok(acc)
    ELSE Try(DisplayArg(Head(es), ctx),
             LAMBDA a : DisplayArgsLoop(Tail(es), ctx, acc \o <<a>>))

DisplayArgs(es, ctx) == DisplayArgsLoop(es, ctx, <<>>)

(* Debug of the value handed to .field(..): a u32 or a format_args! *)
DebugArg(e, ctx) ==
    IF e.kind = "format_args"
    THEN Try(DisplayArgs(e.args, ctx), LAMBDA as : FormatTemplate(e.template, as))
    ELSE Try(EvalPlace(e, ctx), LAMBDA v : Ok(Decimal(v)))

(* the entries a builder prints: [label, text] per .field call *)
RECURSIVE BuilderEntriesLoop(_, _, _)
BuilderEntriesLoop(frags, ctx, acc) ==
    IF frags = <<>> THEN Ok(acc)
    ELSE Try(DebugArg(Head(frags).arg, ctx),
             LAMBDA t : BuilderEntriesLoop(Tail(frags), ctx,
                            acc \o <<[label |-> Head(frags).label, text |-> t]>>))

BuilderEntries(frags, ctx) == BuilderEntriesLoop(frags, ctx, <<>>)

RECURSIVE JoinEntries(_, _)
JoinEntries(es, labelled) ==
    IF es = <<>> THEN <<>>
    ELSE (IF labelled THEN Head(es).label.val \o <<":", " ">> ELSE <<>>)
         \o Head(es).text
         \o (IF Len(es) > 1 THEN <<",", " ">> ELSE <<>>)
         \o JoinEntries(Tail(es), labelled)

(* DebugStruct::finish and DebugTuple::finish, compact mode *)
FinishStruct(name, es) ==
    IF es = <<>> THEN name ELSE name \o <<" ", "{", " ">> \o JoinEntries(es, TRUE) \o <<" ", "}">>

FinishTuple(name, es) ==
    IF es = <<>> THEN name
    ELSE name \o <<"(">> \o JoinEntries(es, FALSE)
         \o (IF Len(es) = 1 /\ name = <<>> THEN <<",">> ELSE <<>>) \o <<")">>

RenderBuilder(b, ctx) ==
    IF b.kind = "write" THEN FormatTemplate(b.name, <<>>)
    ELSE Try(BuilderEntries(b.fields, ctx),
             LAMBDA es : IF b.kind = "debug_struct" THEN Ok(FinishStruct(b.name, es))
                         ELSE Ok(FinishTuple(b.name, es)))

(* values: a record value has variant 0; a union value names its case by position *)
Value(k, vals) == [variant |-> k, vals |-> vals]

(* the generated fmt applied to v; an error is a compile error of the generated code *)
RenderArm(arm, fields, vals) ==
    IF ~PatternOk(arm.pat, fields) THEN Err("pattern does not match the case")
    ELSE RenderBuilder(arm.body, ArmCtx(arm.pat, fields, vals))

(* match self { arms }: the first arm for the value's case *)
RenderMatch(arms, variant, vals) ==
    IF \E k \in 1..Len(arms) : arms[k].variant = variant.ident
    THEN RenderArm(arms[CHOOSE k \in 1..Len(arms) :
                            /\ arms[k].variant = variant.ident
                            /\ \A j \in 1..(k - 1) : arms[j].variant # variant.ident],
                   variant.fields, vals)
    ELSE Err("non-exhaustive patterns")

Render(it, o, v) ==
    IF o.kind # "impl" THEN Err(o.msg)
    ELSE IF o.body.kind = "expr"
    THEN RenderBuilder(o.body.expr, SelfCtx(it.data.fields, v.vals))
    ELSE IF o.body.kind = "match"
    THEN RenderMatch(o.body.arms, it.data.variants[v.variant], v.vals)
    ELSE Err("unreachable")

----------------------------------------------------------------------------
(* Items: DeriveInput, DataStruct, DataEnum, Variant, Field *)

Field(ident, as) == [ident |-> ident, attrs |-> as]
Fields(shape, list) == [shape |-> shape, list |-> list]
UnitFields == Fields("Unit", <<>>)
Variant(ident, as, fields) == [ident |-> ident, attrs |-> as, fields |-> fields]
StructData(fields) == [kind |-> "struct", fields |-> fields, variants |-> <<>>]
EnumData(variants) == [kind |-> "enum", fields |-> UnitFields, variants |-> variants]
UnionData == [kind |-> "union", fields |-> UnitFields, variants |-> <<>>]
DeriveInput(ident, as, data) == [ident |-> ident, attrs |-> as, data |-> data]

TypeName == <<"T">>
VariantNames == <<<<"A">>, <<"B">>, <<"C">>, <<"D">>>>
FieldNames == <<<<"a">>, <<"b">>, <<"c">>, <<"d">>>>

(* the u32 values fields take *)
FieldValues == {0, 17}

ValuesOf(it) ==
    IF it.data.kind = "struct"
    THEN {Value(0, vs) : vs \in [1..Len(it.data.fields.list) -> FieldValues]}
    ELSE IF it.data.kind = "enum"
    THEN UNION {{Value(k, vs) : vs \in [1..Len(it.data.variants[k].fields.list) -> FieldValues]} :
                    k \in 1..Len(it.data.variants)}
    ELSE {}

(* the generated impl is accepted by the compiler: every arm type-checks *)
Compiles(it, o) ==
    /\ o.kind = "impl"
    /\ \A v \in ValuesOf(it) : Render(it, o, v).ok

----------------------------------------------------------------------------
(* State machine *)

NotParsed == Err("(not run)")
NoOutput == [kind |-> "none", name |-> <<>>, body |-> <<>>, msg |-> ""]
NoValue == Value(0, <<>>)
NotRendered == Err("(not run)")

(* a direct call of parse_options on the annotation list under test *)
ParseOptions ==
    /\ target \in OptionsTarget
    /\ parsed = NotParsed
    /\ out = NoOutput
    /\ parsed' = parse_options(attrs, target)
    /\ UNCHANGED <<target, attrs, item, out, value, rendered>>

(* the compiler expands #[derive(Dbg)] on the item *)
DeriveDebug ==
    /\ out = NoOutput
    /\ out' = derive_debug_impl(item)
    /\ UNCHANGED <<target, attrs, parsed, item, value, rendered>>

(* the client formats a value of the type with the generated impl *)
Fmt(v) ==
    /\ out # NoOutput
    /\ rendered = NotRendered
    /\ Compiles(item, out)
    /\ value' = v
    /\ rendered' = Render(item, out, v)
    /\ UNCHANGED <<target, attrs, parsed, item, out>>

----------------------------------------------------------------------------
(* SpecOptions: one annotation list, placed on one member of a small item   *)

OptionKeys == {"skip", "alias", "placeholder", "fmt", "formatter", "other"}
PathTexts == SeqsUpTo({"a", ":"}, MaxPathLen)
PlainTexts == SeqsUpTo({"a"}, MaxTextLen)

Options ==
    {OptPath(k) : k \in OptionKeys}
    \cup {OptStr("formatter", s) : s \in PathTexts}
    \cup {OptStr(k, s) : k \in {"alias", "placeholder", "fmt"}, s \in PlainTexts}
    \cup {OptStr(k, <<"a">>) : k \in {"skip", "other"}}
    \cup {OptInt(k) : k \in {"skip", "alias", "formatter"}}
    \cup {OptList("skip")}
    \cup {OptLit(<<"a">>)}

Malformed == {DbgWord, DbgNameValue, DbgUnparsable}

(* the annotation lists built from a sequence of options: all in one        *)
(* attribute; a pair in two attributes; a short one repeated in a foreign    *)
(* attribute, or followed by a malformed #[dbg] attribute                   *)
AttrListsOf(os) ==
    {<<DbgList(os)>>}
    \cup (IF Len(os) = 2 THEN {<<DbgList(<<os[1]>>), DbgList(<<os[2]>>)>>} ELSE {})
    \cup (IF Len(os) <= 1
          THEN {<<OtherAttr(os), DbgList(os)>>} \cup {<<DbgList(os), m>> : m \in Malformed}
          ELSE {})
    \cup (IF Len(os) = 0 THEN {<<m>> : m \in Malformed} ELSE {})

(* the item that carries the annotation list in the given context *)
ItemFor(t, as) ==
    CASE t = "DeriveItem" -> DeriveInput(TypeName, as, StructData(UnitFields))
      [] t = "EnumVariant" ->
            DeriveInput(TypeName, <<>>,
                EnumData(<<Variant(VariantNames[1], as,
                                Fields("Unnamed", <<Field(<<>>, <<>>)>>))>>))
      [] t = "NamedField" ->
            DeriveInput(TypeName, <<>>,
                StructData(Fields("Named", <<Field(FieldNames[1], as)>>)))
      [] t = "UnnamedField" ->
            DeriveInput(TypeName, <<>>,
                EnumData(<<Variant(VariantNames[1], <<>>,
                                Fields("Unnamed", <<Field(<<>>, as)>>))>>))

InitOptions ==
    /\ target \in OptionsTarget
    /\ \E n \in 0..MaxOptions : \E os \in [1..n -> Options] : attrs \in AttrListsOf(os)
    /\ item = ItemFor(target, attrs)
    /\ parsed = NotParsed
    /\ out = NoOutput
    /\ value = NoValue
    /\ rendered = NotRendered

NextOptions ==
    \/ ParseOptions
    \/ (parsed # NotParsed /\ DeriveDebug)

SpecOptions == InitOptions /\ [][NextOptions]_vars

----------------------------------------------------------------------------
(* SpecRender: whole items, derived and then formatted                      *)

TxPlain == <<"x">>              \* plain text
TxEscaped == <<"{", "{">>       \* an escaped brace: the template prints "{"
TxArg == <<"{", "}">>           \* a template that takes one argument
UnknownPath == <<"y">>          \* a path that names nothing in scope

One(o) == <<DbgList(<<o>>)>>

(* annotation lists a field may carry *)
CommonFieldAttrs ==
    { <<>>,
      One(OptPath("skip")),
      One(OptStr("placeholder", TxPlain)),
      One(OptStr("placeholder", TxEscaped)),
      One(OptStr("placeholder", TxArg)),
      One(OptStr("fmt", TxArg)),
      One(OptStr("fmt", TxPlain)),
      One(OptStr("formatter", FmtNotZeroPath)),
      One(OptStr("formatter", UnknownPath)),
      <<DbgList(<<OptPath("skip")>>), DbgList(<<OptStr("placeholder", TxPlain)>>)>>,
      <<DbgList(<<OptStr("fmt", TxArg), OptPath("skip")>>)>>,
      One(OptPath("other")) }

NamedFieldAttrs ==
    CommonFieldAttrs
    \cup { One(OptStr("alias", TxPlain)),
           <<DbgList(<<OptStr("alias", TxPlain), OptStr("placeholder", TxPlain)>>)>> }

UnnamedFieldAttrs == CommonFieldAttrs \cup { One(OptStr("alias", TxPlain)) }

(* fields whose annotations are the lists fa[1], fa[2], ... *)
NamedFieldsOf(fa) == Fields("Named", [i \in 1..Len(fa) |-> Field(FieldNames[i], fa[i])])
UnnamedFieldsOf(fa) == Fields("Unnamed", [i \in 1..Len(fa) |-> Field(<<>>, fa[i])])

ItemAttrs ==
    { <<>>, One(OptStr("alias", TxPlain)), One(OptStr("alias", TxEscaped)),
      One(OptPath("skip")) }

VariantAttrs ==
    { <<>>, One(OptPath("skip")), One(OptStr("alias", TxPlain)),
      One(OptStr("alias", TxEscaped)),
      <<DbgList(<<OptStr("alias", TxPlain), OptPath("skip")>>)>>,
      <<DbgList(<<OptPath("skip")>>), DbgList(<<OptStr("alias", TxEscaped)>>)>>,
      One(OptStr("placeholder", TxPlain)) }

(* a record: struct T { .. }, struct T( .. ), struct T; *)
StructItem(as, fs) == DeriveInput(TypeName, as, StructData(fs))

(* a union of one case: enum T { A { .. } }, enum T { A( .. ) }, enum T { A } *)
OneCaseItem(as, fs) ==
    DeriveInput(TypeName, <<>>, EnumData(<<Variant(VariantNames[1], as, fs)>>))

(* a union of several cases, each of a simple shape *)
SimpleFields ==
    { UnitFields, Fields("Named", <<>>),
      Fields("Named", <<Field(FieldNames[1], <<>>)>>),
      Fields("Unnamed", <<Field(<<>>, <<>>)>>) }

SimpleVariantAttrs ==
    { <<>>, One(OptPath("skip")), One(OptStr("alias", TxPlain)),
      One(OptStr("alias", TxEscaped)), One(OptStr("alias", TxArg)) }

ManyCaseItemAttrs == { <<>>, One(OptStr("alias", TxPlain)), One(OptPath("skip")) }

ManyCaseItem(as, c) ==
    DeriveInput(TypeName, as,
        EnumData([k \in 1..Len(c) |-> Variant(VariantNames[k], c[k][1], c[k][2])]))

InitItem ==
    \/ \E as \in ItemAttrs : item = StructItem(as, UnitFields)
    \/ \E as \in ItemAttrs : \E n \in 0..MaxFields : \E fa \in [1..n -> NamedFieldAttrs] :
            item = StructItem(as, NamedFieldsOf(fa))
    \/ \E as \in ItemAttrs : \E n \in 0..MaxFields : \E fa \in [1..n -> UnnamedFieldAttrs] :
            item = StructItem(as, UnnamedFieldsOf(fa))
    \/ \E as \in VariantAttrs : item = OneCaseItem(as, UnitFields)
    \/ \E as \in VariantAttrs : \E n \in 0..MaxFields : \E fa \in [1..n -> NamedFieldAttrs] :
            item = OneCaseItem(as, NamedFieldsOf(fa))
    \/ \E as \in VariantAttrs : \E n \in 0..MaxFields : \E fa \in [1..n -> UnnamedFieldAttrs] :
            item = OneCaseItem(as, UnnamedFieldsOf(fa))
    \/ \E as \in ManyCaseItemAttrs : \E n \in 0..MaxVariants :
            \E c \in [1..n -> SimpleVariantAttrs \X SimpleFields] : item = ManyCaseItem(as, c)
    \/ item = DeriveInput(TypeName, <<>>, UnionData)

InitRender ==
    /\ InitItem
    /\ target = "none"
    /\ attrs = <<>>
    /\ parsed = NotParsed
    /\ out = NoOutput
    /\ value = NoValue
    /\ rendered = NotRendered

NextRender ==
    \/ DeriveDebug
    \/ \E v \in ValuesOf(item) : Fmt(v)

SpecRender == InitRender /\ [][NextRender]_vars

----------------------------------------------------------------------------
(* Properties of the option parser (SpecOptions)                            *)

(* the options of the #[dbg(...)] lists, in source order *)
RECURSIVE FlatOptions(_)
FlatOptions(as) ==
    IF as = <<>> THEN <<>>
    ELSE (IF Head(as).path = "dbg" /\ Head(as).meta = "list" THEN Head(as).nested ELSE <<>>)
         \o FlatOptions(Tail(as))

WellFormedAttrs(as) == \A i \in 1..Len(as) : as[i].path = "dbg" => as[i].meta = "list"

(* the validity table of the specification, section 4.1 *)
RecognizedKeys == {"skip", "alias", "placeholder", "fmt", "formatter"}

TablePermits(key, t) ==
    CASE key = "skip" -> t \in {"EnumVariant", "NamedField", "UnnamedField"}
      [] key = "alias" -> t \in {"DeriveItem", "EnumVariant", "NamedField"}
      [] key \in {"placeholder", "fmt", "formatter"} -> t \in {"NamedField", "UnnamedField"}
      [] OTHER -> FALSE

RightShape(o) == IF o.key = "skip" THEN o.shape = "path" ELSE o.shape = "str"

TableAccepts(o, t) == o.key \in RecognizedKeys /\ TablePermits(o.key, t) /\ RightShape(o)

TableAcceptsParsed(o, t) ==
    TableAccepts(o, t) /\ (o.key = "formatter" => ParsesAsPath(o.val))

ParseDone == parsed # NotParsed
DeriveDone == out # NoOutput
OnlyCompileError == out.kind = "error" /\ out.body = <<>> /\ out.msg # ""

(* C1 as stated: parse_options succeeds exactly when every option of the    *)
(* annotation is permitted by the validity table in its context and has the *)
(* right value kind (a bare key for skip, a string for the others); when it *)
(* fails the derive returns only a compile error.                           *)
C1_AsStated ==
    /\ ParseDone =>
          (parsed.ok <=> /\ WellFormedAttrs(attrs)
                         /\ \A i \in 1..Len(FlatOptions(attrs)) :
                                TableAccepts(FlatOptions(attrs)[i], target))
    /\ (ParseDone /\ DeriveDone /\ ~parsed.ok) => OnlyCompileError

(* C1 amended: as C1, and a formatter's string must also parse as a path.   *)
C1_OptionValidity ==
    /\ ParseDone =>
          (parsed.ok <=> /\ WellFormedAttrs(attrs)
                         /\ \A i \in 1..Len(FlatOptions(attrs)) :
                                TableAcceptsParsed(FlatOptions(attrs)[i], target))
    /\ (ParseDone /\ DeriveDone /\ ~parsed.ok) => OnlyCompileError

(* a formatter string that is no path, on a field: rejected, compile error only *)
C1_Witness ==
    /\ ParseDone /\ DeriveDone /\ ~parsed.ok /\ OnlyCompileError
    /\ target = "UnnamedField"
    /\ Len(FlatOptions(attrs)) = 2
    /\ TableAccepts(FlatOptions(attrs)[1], target)
    /\ FlatOptions(attrs)[2].key = "formatter"
    /\ TableAccepts(FlatOptions(attrs)[2], target)
    /\ ~ParsesAsPath(FlatOptions(attrs)[2].val)

IsRendering(o) == o.key \in {"skip", "placeholder", "fmt", "formatter"}
IsAlias(o) == o.key = "alias"

DirectiveOf(o) ==
    CASE o.key = "skip" -> Skip
      [] o.key = "placeholder" -> Placeholder(o.val)
      [] o.key = "fmt" -> Format(o.val)
      [] o.key = "formatter" -> Custom(o.val)

LastIndex(os, P(_)) ==
    IF \E i \in 1..Len(os) : P(os[i])
    THEN CHOOSE i \in 1..Len(os) : P(os[i]) /\ \A j \in (i + 1)..Len(os) : ~P(os[j])
    ELSE 0

LastRendering(os) ==
    IF LastIndex(os, IsRendering) = 0 THEN Normal
    ELSE DirectiveOf(os[LastIndex(os, IsRendering)])

LastAlias(os) ==
    IF LastIndex(os, IsAlias) = 0 THEN None ELSE Some(os[LastIndex(os, IsAlias)].val)

(* the annotation list with the options satisfying P removed *)
Without(as, P(_)) ==
    [i \in 1..Len(as) |->
        [as[i] EXCEPT !.nested = SelectSeq(as[i].nested, LAMBDA o : ~P(o))]]

(* C7: for valid options the rendering directive is the one set by the last *)
(* of skip / placeholder / fmt / formatter (normal if none), the alias is   *)
(* the last alias (none if none), and neither depends on the other: taking  *)
(* the alias options away leaves the directive, taking the rendering        *)
(* options away leaves the alias.                                           *)
C7_LastWins ==
    (ParseDone /\ parsed.ok) =>
        /\ parsed.val.print_type = LastRendering(FlatOptions(attrs))
        /\ parsed.val.alias = LastAlias(FlatOptions(attrs))
        /\ parse_options(Without(attrs, IsAlias), target).ok
        /\ parse_options(Without(attrs, IsAlias), target).val.print_type
                = parsed.val.print_type
        /\ parse_options(Without(attrs, IsRendering), target).ok
        /\ parse_options(Without(attrs, IsRendering), target).val.alias
                = parsed.val.alias

(* two different rendering options in two attributes: the second one wins *)
C7_Witness ==
    /\ ParseDone /\ parsed.ok
    /\ Len(attrs) = 2
    /\ Len(FlatOptions(attrs)) = 2
    /\ FlatOptions(attrs)[1].key = "placeholder"
    /\ FlatOptions(attrs)[2].key = "skip"
    /\ parsed.val.print_type = Skip

(* C10: on a union case parse_options fails or returns render-normally or   *)
(* skip, so the derive never reports "Internal error".                      *)
C10_NoInternalError ==
    /\ (ParseDone /\ parsed.ok /\ target = "EnumVariant") =>
            parsed.val.print_type.tag \in {"Normal", "Skip"}
    /\ out.msg # "Internal error"

(* a union case with an alias and skip: parsed, and the arm is generated *)
C10_Witness ==
    /\ target = "EnumVariant"
    /\ ParseDone /\ parsed.ok /\ DeriveDone
    /\ parsed.val.print_type = Skip
    /\ parsed.val.alias.some
    /\ out.kind = "impl" /\ out.body.kind = "match"

----------------------------------------------------------------------------
(* Properties of the generated code (SpecRender)                            *)

(* what the specification says of a member, read off its annotations *)
SpecDirective(m) == LastRendering(FlatOptions(m.attrs))
SpecAlias(m) == LastAlias(FlatOptions(m.attrs))
SpecDisplayName(m) == IF SpecAlias(m).some THEN SpecAlias(m).val ELSE m.ident
Skipped(m) == SpecDirective(m) = Skip
ValidOn(m, t) ==
    /\ WellFormedAttrs(m.attrs)
    /\ \A i \in 1..Len(FlatOptions(m.attrs)) : TableAcceptsParsed(FlatOptions(m.attrs)[i], t)

IsStruct == item.data.kind = "struct"
IsEnum == item.data.kind = "enum"
Formatted == rendered # NotRendered

(* the record itself, or the case the formatted value belongs to *)
ActiveMember == IF IsStruct THEN item ELSE item.data.variants[value.variant]
ActiveFields == IF IsStruct THEN item.data.fields ELSE item.data.variants[value.variant].fields
ActiveSkipped == IsEnum /\ Skipped(ActiveMember)

(* the builder that runs for the formatted value, and the entries it prints *)
ActiveArm ==
    out.body.arms[CHOOSE k \in 1..Len(out.body.arms) :
                    /\ out.body.arms[k].variant = ActiveMember.ident
                    /\ \A j \in 1..(k - 1) : out.body.arms[j].variant # ActiveMember.ident]
ActiveBuilder == IF IsStruct THEN out.body.expr ELSE ActiveArm.body
ActiveCtx ==
    IF IsStruct THEN SelfCtx(item.data.fields, value.vals)
    ELSE ArmCtx(ActiveArm.pat, ActiveFields, value.vals)
RenderedEntries == BuilderEntries(ActiveBuilder.fields, ActiveCtx).val

(* the text section 4.2 prescribes for a field with directive d and value v *)
ExpectedText(d, v) ==
    CASE d.tag = "Normal" -> Decimal(v)
      [] d.tag = "Placeholder" -> FormatTemplate(d.arg, <<>>).val
      [] d.tag = "Format" -> FormatTemplate(d.arg, <<Decimal(v)>>).val
      [] d.tag = "Custom" -> fmt_not_zero(v)

RECURSIVE ExpectedEntries(_, _, _)
ExpectedEntries(fields, vals, i) ==
    IF i > Len(fields.list) THEN <<>>
    ELSE (IF Skipped(fields.list[i]) THEN <<>>
          ELSE <<[label |-> IF fields.shape = "Named"
                            THEN Some(SpecDisplayName(fields.list[i])) ELSE None,
                  text |-> ExpectedText(SpecDirective(fields.list[i]), vals[i])]>>)
         \o ExpectedEntries(fields, vals, i + 1)

(* the item and the value with every field marked skip taken away *)
StripFields(fields) ==
    [shape |-> fields.shape, list |-> SelectSeq(fields.list, LAMBDA f : ~Skipped(f))]
StripVariant(v) == Variant(v.ident, v.attrs, StripFields(v.fields))
StripItem(it) ==
    DeriveInput(it.ident, it.attrs,
        [kind |-> it.data.kind,
         fields |-> StripFields(it.data.fields),
         variants |-> [k \in 1..Len(it.data.variants) |-> StripVariant(it.data.variants[k])]])
KeptIndices(fields) ==
    SelectSeq([i \in 1..Len(fields.list) |-> i], LAMBDA i : ~Skipped(fields.list[i]))
StripValue(fields, v) ==
    Value(v.variant, [j \in 1..Len(KeptIndices(fields)) |-> v.vals[KeptIndices(fields)[j]]])

(* C2: for a record or a non-skipped union case the output holds exactly    *)
(* the fields not marked skip, in declaration order, each under its label   *)
(* and in its prescribed form; and taking the skipped fields out of the     *)
(* declaration (and the value) leaves the output unchanged.                 *)
C2_SkippedFieldsAbsent ==
    (Formatted /\ ~ActiveSkipped) =>
        /\ RenderedEntries = ExpectedEntries(ActiveFields, value.vals, 1)
        /\ Render(StripItem(item), derive_debug_impl(StripItem(item)),
                  StripValue(ActiveFields, value)) = rendered

(* a positional case whose first field is skipped and whose second is not *)
C2_Witness ==
    /\ Formatted /\ rendered.ok /\ IsEnum /\ ~ActiveSkipped
    /\ ActiveFields.shape = "Unnamed"
    /\ Len(ActiveFields.list) = 2
    /\ Skipped(ActiveFields.list[1])
    /\ SpecDirective(ActiveFields.list[2]) = Normal
    /\ value.vals = <<0, 17>>
    /\ Len(RenderedEntries) = 1

(* C5: two values that differ only in fields marked placeholder render the *)
(* same text.                                                              *)
PlaceholderMarked(f) == SpecDirective(f).tag = "Placeholder"

DifferOnlyInPlaceholders(fields, v, w) ==
    /\ v.variant = w.variant
    /\ \A i \in 1..Len(fields.list) :
            v.vals[i] # w.vals[i] => PlaceholderMarked(fields.list[i])

C5_PlaceholderIgnoresValue ==
    (Formatted /\ ~ActiveSkipped) =>
        \A w \in ValuesOf(item) :
            DifferOnlyInPlaceholders(ActiveFields, value, w) => Render(item, out, w) = rendered

(* a record with a placeholder field whose value is the non-default one *)
C5_Witness ==
    /\ Formatted /\ rendered.ok /\ IsStruct
    /\ ActiveFields.shape = "Named"
    /\ Len(ActiveFields.list) = 2
    /\ PlaceholderMarked(ActiveFields.list[2])
    /\ SpecDirective(ActiveFields.list[1]) = Normal
    /\ value.vals = <<0, 17>>
    /\ \E w \in ValuesOf(item) : w # value /\ DifferOnlyInPlaceholders(ActiveFields, value, w)

(* C6: a union with no cases and valid annotations derives successfully,    *)
(* and the body of fmt is the unreachable statement alone.                  *)
C6_EmptyEnumUnreachable ==
    (DeriveDone /\ IsEnum /\ item.data.variants = <<>> /\ ValidOn(item, "DeriveItem")) =>
        /\ out.kind = "impl"
        /\ out.body = Unreachable

C6_Witness ==
    /\ DeriveDone /\ IsEnum /\ item.data.variants = <<>>
    /\ item.attrs # <<>> /\ ValidOn(item, "DeriveItem")
    /\ out.body.kind = "unreachable"

(* C8: in the arm of a non-skipped case the pattern has one entry per       *)
(* declared field, in order; the entry of a skipped field binds nothing,    *)
(* the entry of any other field binds the field's own name (named) or       *)
(* field_i (positional); the body refers to bound names only.               *)
ExprLocals(e) ==
    IF e.kind = "local" THEN {e.name}
    ELSE IF e.kind = "call" /\ e.args[1].kind = "local" THEN {e.args[1].name}
    ELSE {}

ExprSelfRefs(e) ==
    IF e.kind \in {"ref_self", "self"} THEN {e.name}
    ELSE IF e.kind = "call" /\ e.args[1].kind \in {"ref_self", "self"} THEN {e.args[1].name}
    ELSE {}

ArgLocals(e) ==
    IF e.kind = "format_args" THEN UNION {ExprLocals(e.args[k]) : k \in 1..Len(e.args)}
    ELSE ExprLocals(e)

ArgSelfRefs(e) ==
    IF e.kind = "format_args" THEN UNION {ExprSelfRefs(e.args[k]) : k \in 1..Len(e.args)}
    ELSE ExprSelfRefs(e)

BodyLocals(b) == UNION {ArgLocals(b.fields[k].arg) : k \in 1..Len(b.fields)}
BodySelfRefs(b) == UNION {ArgSelfRefs(b.fields[k].arg) : k \in 1..Len(b.fields)}
PatternNames(pat) == {pat.entries[k].bind.val : k \in {j \in 1..Len(pat.entries) : pat.entries[j].bind.some}}

ExpectedEntry(fields, i) ==
    IF fields.shape = "Named"
    THEN (IF Skipped(fields.list[i]) THEN Discard(fields.list[i].ident)
          ELSE Bind(fields.list[i].ident, fields.list[i].ident))
    ELSE (IF Skipped(fields.list[i]) THEN Discard(<<>>) ELSE Bind(<<>>, FieldIdent(i - 1)))

ArmWellBound(arm, variant) ==
    /\ arm.variant = variant.ident
    /\ Len(arm.pat.entries) = Len(variant.fields.list)
    /\ \A i \in 1..Len(variant.fields.list) :
            arm.pat.entries[i] = ExpectedEntry(variant.fields, i)
    /\ BodyLocals(arm.body) \subseteq PatternNames(arm.pat)
    /\ BodySelfRefs(arm.body) = {}

C8_PatternBindsUnskipped ==
    (DeriveDone /\ out.kind = "impl" /\ out.body.kind = "match") =>
        /\ Len(out.body.arms) = Len(item.data.variants)
        /\ \A k \in 1..Len(item.data.variants) :
                ~Skipped(item.data.variants[k]) =>
                    ArmWellBound(out.body.arms[k], item.data.variants[k])

(* a named case: first field skipped, second one formatted through fmt *)
C8_Witness ==
    /\ DeriveDone /\ out.kind = "impl" /\ out.body.kind = "match"
    /\ Len(item.data.variants) = 1
    /\ ~Skipped(item.data.variants[1])
    /\ item.data.variants[1].fields.shape = "Named"
    /\ Len(item.data.variants[1].fields.list) = 2
    /\ Skipped(item.data.variants[1].fields.list[1])
    /\ SpecDirective(item.data.variants[1].fields.list[2]).tag = "Format"
    /\ BodyLocals(out.body.arms[1].body) = {FieldNames[2]}

(* the text of a builder called with this name and these entries *)
FinishFor(fields, name, es) ==
    IF fields.shape = "Unnamed" THEN FinishTuple(name, es) ELSE FinishStruct(name, es)

(* C3: the name in the output is the alias of the record, or of the case    *)
(* the value belongs to, when it has one and its declared name otherwise,   *)
(* in the brace form, the paren form and the bare form.                     *)
C3_AliasOverridesName ==
    Formatted =>
        rendered = Ok(FinishFor(ActiveFields, SpecDisplayName(ActiveMember), RenderedEntries))

(* C4: a case marked skip derives whatever its fields' annotations are, to  *)
(* the same code as with those annotations removed, and prints its display  *)
(* name and nothing else.                                                   *)
ClearFieldAttrs(v) ==
    Variant(v.ident, v.attrs,
        [shape |-> v.fields.shape,
         list |-> [i \in 1..Len(v.fields.list) |-> Field(v.fields.list[i].ident, <<>>)]])

ClearSkippedCases(it) ==
    DeriveInput(it.ident, it.attrs,
        EnumData([k \in 1..Len(it.data.variants) |->
                    IF Skipped(it.data.variants[k]) THEN ClearFieldAttrs(it.data.variants[k])
                    ELSE it.data.variants[k]]))

C4_FieldsNeverConsulted ==
    (DeriveDone /\ IsEnum) => out = derive_debug_impl(ClearSkippedCases(item))

C4_SkippedCaseBareName ==
    /\ C4_FieldsNeverConsulted
    /\ (Formatted /\ ActiveSkipped) => rendered = Ok(SpecDisplayName(ActiveMember))

(* C9: a record or case without fields prints its display name, character   *)
(* for character.                                                           *)
C9_BareDisplayName ==
    (Formatted /\ ActiveFields.list = <<>>) => rendered = Ok(SpecDisplayName(ActiveMember))

====
